---------------------------- MODULE Spec2Model ----------------------------
(***************************************************************************)
(* Thai Contract Automation Tool (src/app.py): the identifier sequencer    *)
(* increment_id, CSV ingestion with its encoding fallback, the selection   *)
(* editor and the batch generation loop that fills a zip archive.          *)
(*                                                                         *)
(* Text is a sequence of characters; a character is a short string.  The   *)
(* characters "th0".."th9" stand for the Thai digits U+0E50..U+0E59, which *)
(* Python's \d and int() accept as decimal digits.                         *)
(***************************************************************************)
EXTENDS Integers, Sequences, FiniteSets, TLC

VARIABLES
    csv_file,           \* the uploaded CSV stream: [lines, pos]
    docx_pos,           \* read position of the uploaded template: 0 = beginning
    df,                 \* the parsed table, or NoTable
    start_contract_id,  \* text of the "Starting Contract ID" input
    cols,               \* the five selectboxes: field -> column index (1-based)
    Select,             \* the "Select" checkbox column: row -> BOOLEAN
    pc,                 \* position of the script run
    i,                  \* the enumerate() counter of the batch loop
    context,            \* the row context handed to render, or NoContext
    doc,                \* the DocxTemplate instance held in `doc`
    n_inst,             \* number of DocxTemplate instances created in this run
    zip_buffer,         \* "none", "open" or "closed"
    zf,                 \* entries written to the archive: [name, inst, row]
    ids,                \* identifiers generated so far, in generation order
    rows_seen,          \* table rows the loop has visited, in visiting order
    out                 \* messages and widgets shown by the current run

vars == <<csv_file, docx_pos, df, start_contract_id, cols, Select, pc, i, context,
          doc, n_inst, zip_buffer, zf, ids, rows_seen, out>>

----------------------------------------------------------------------------
(* Bounds *)

MaxLen == 3         \* longest start identifier drawn for the sequencer
MaxIndex == 11      \* largest index handed to increment_id by the sequencer runs
MaxLines == 4       \* most lines (header included) of an uploaded CSV

----------------------------------------------------------------------------
(* Text helpers: Python's re, int, str and str.zfill *)

AsciiDigit == <<"0", "1", "2", "3", "4", "5", "6", "7", "8", "9">>
ThaiDigit == <<"th0", "th1", "th2", "th3", "th4", "th5", "th6", "th7", "th8", "th9">>

\* \d of a str pattern: any Unicode decimal digit
IsDigit(c) == \E k \in 1..10 : c = AsciiDigit[k] \/ c = ThaiDigit[k]

\* the digit value int() gives a Unicode decimal digit
DigitValue(c) == CHOOSE k \in 0..9 : c = AsciiDigit[k + 1] \/ c = ThaiDigit[k + 1]

\* re.search(r'(\d+)$', s): 1-based index where the match starts, 0 for no match
MatchStart(s) ==
    IF Len(s) = 0 \/ ~IsDigit(s[Len(s)]) THEN 0
    ELSE CHOOSE p \in 1..Len(s) :
            /\ \A k \in p..Len(s) : IsDigit(s[k])
            /\ p = 1 \/ ~IsDigit(s[p - 1])

RECURSIVE IntOf(_)
\* int(number_str)
IntOf(ds) ==
    IF ds = <<>> THEN 0
    ELSE 10 * IntOf(SubSeq(ds, 1, Len(ds) - 1)) + DigitValue(ds[Len(ds)])

RECURSIVE StrOf(_)
\* str(n) of a non-negative int
StrOf(n) ==
    IF n < 10 THEN <<AsciiDigit[n + 1]>>
    ELSE StrOf(n \div 10) \o <<AsciiDigit[(n % 10) + 1]>>

ZfillTruncating(s, w) ==
    IF Len(s) >= w THEN SubSeq(s, Len(s) - w + 1, Len(s))
    ELSE [k \in 1..(w - Len(s)) |-> "0"] \o s

\* s.zfill(w) of a digit string
Zfill(s, w) ==
    IF Len(s) >= w THEN s
    ELSE [k \in 1..(w - Len(s)) |-> "0"] \o s

increment_id_suffix_from_zero(start_id, index) ==
    LET m == MatchStart(start_id) IN
    IF m > 0
    THEN SubSeq(start_id, 1, m - 1)
            \o Zfill(StrOf(IntOf(SubSeq(start_id, m, Len(start_id))) + index),
                     Len(start_id) - m + 1)
    ELSE IF index = 0 THEN start_id ELSE start_id \o <<"-">> \o StrOf(index + 1)

increment_id(start_id, index) ==
    LET m == MatchStart(start_id) IN
    IF m > 0
    THEN LET number_str == SubSeq(start_id, m, Len(start_id))
             number_len == Len(number_str)
             start_num == IntOf(number_str)
             new_num == start_num + index
             new_number_str == Zfill(StrOf(new_num), number_len)
         \* start_id[match.end():] is empty: the match is anchored at the end
         IN  SubSeq(start_id, 1, m - 1) \o new_number_str
    ELSE start_id \o <<"-">> \o StrOf(index + 1)


----------------------------------------------------------------------------
(* The uploaded CSV: lines of two cells, each line tagged with the encodings *)
(* under which its bytes decode.                                             *)

\* "ascii": valid as UTF-8 and as TIS-620; "tis": high bytes, valid as
\* TIS-620 only; "bad": a byte neither codec accepts (0xFF)
LineChoices ==
    { [cells |-> << <<"A">>, <<"0", "1">> >>, enc |-> "ascii"],
      [cells |-> << <<"B">>, <<"X", "1">> >>, enc |-> "ascii"],
      [cells |-> << <<"A">>, <<"0", "7">> >>, enc |-> "tis"],
      [cells |-> << <<"B">>, <<"0", "1">> >>, enc |-> "bad"] }

Payloads == UNION { [1..n -> LineChoices] : n \in 0..MaxLines }

ValidUtf8(line) == line.enc = "ascii"
ValidTis620(line) == line.enc \in {"ascii", "tis"}

\* what the stream still holds behind its read position
Remaining(f) == SubSeq(f.lines, f.pos + 1, Len(f.lines))

\* 1-based index in f.lines of the first line that is not valid UTF-8 (0: none)
FirstInvalidUtf8(f) ==
    IF \A k \in 1..Len(f.lines) : ValidUtf8(f.lines[k]) THEN 0
    ELSE CHOOSE k \in 1..Len(f.lines) :
            /\ ~ValidUtf8(f.lines[k])
            /\ \A j \in 1..(k - 1) : ValidUtf8(f.lines[j])

IsAsciiDigit(c) == \E k \in 1..10 : c = AsciiDigit[k]

\* pandas' type inference: a column whose every data cell is an integer literal
\* becomes int64, any other column stays object (text)
ColumnIsInt(data, c) ==
    /\ Len(data) > 0
    /\ \A r \in 1..Len(data) :
          /\ Len(data[r].cells[c]) > 0
          /\ \A k \in 1..Len(data[r].cells[c]) : IsAsciiDigit(data[r].cells[c][k])

CellValue(data, r, c) ==
    IF ColumnIsInt(data, c)
    THEN [isint |-> TRUE, n |-> IntOf(data[r].cells[c]), s |-> <<>>]
    ELSE [isint |-> FALSE, n |-> 0, s |-> data[r].cells[c]]

\* pd.read_csv on decoded lines: the first line is the header.  `skip` is the
\* number of payload lines in front of that header.
ParseTable(lines, skip) ==
    LET data == SubSeq(lines, 2, Len(lines)) IN
    [loaded |-> TRUE,
     columns |-> lines[1].cells,
     rows |-> [r \in 1..Len(data) |-> [c \in 1..2 |-> CellValue(data, r, c)]],
     skip |-> skip]

NoTable == [loaded |-> FALSE, columns |-> <<>>, rows |-> <<>>, skip |-> 0]

\* str(value) of a table value
PyStr(v) == IF v.isint THEN StrOf(v.n) ELSE v.s

----------------------------------------------------------------------------
(* Widgets *)

Fields == {"prefix", "name", "surname", "id", "address"}

\* the index= arguments of the five selectboxes
DefaultIndex ==
    [prefix |-> 2, name |-> 3, surname |-> 4, id |-> 5, address |-> 9]

\* index=k if len(columns) > k else 0, as a 1-based column
DefaultCols(ncols) ==
    [f \in Fields |-> IF ncols > DefaultIndex[f] THEN DefaultIndex[f] + 1 ELSE 1]

\* the column choices tried by the model
MappingChoices ==
    { [f \in Fields |-> 1],
      [f \in Fields |-> IF f \in {"id", "address"} THEN 2 ELSE 1] }

DefaultStartId == <<"C", "T", "-", "2", "5", "6", "8", "/", "0", "0", "1">>

\* the start identifiers typed by the model
StartIdChoices ==
    { DefaultStartId, <<"C", "\\", "9">>, <<"C", "T">> }

SelectedRowsReversed ==
    LET S == { r \in 1..Len(df.rows) : Select[r] }
        f[T \in SUBSET S] ==
            IF T = {} THEN <<>>
            ELSE LET hi == CHOOSE r \in T : \A q \in T : q <= r
                 IN  <<hi>> \o f[T \ {hi}]
    IN  f[S]

\* edited_df[edited_df.Select]: the checked rows, in table order
SelectedRows ==
    LET S == { r \in 1..Len(df.rows) : Select[r] }
        f[T \in SUBSET S] ==
            IF T = {} THEN <<>>
            ELSE LET lo == CHOOSE r \in T : \A q \in T : r <= q
                 IN  <<lo>> \o f[T \ {lo}]
    IN  f[S]

----------------------------------------------------------------------------
(* Names, contexts and the state of one script run *)

Sanitize(s) == [k \in 1..Len(s) |-> IF s[k] \in {"/", "\\"} THEN "-" ELSE s[k]]

FileNameWithoutId(contract_id, p_name) ==
    Sanitize(p_name \o <<".", "d", "o", "c", "x">>)

\* f"{current_contract_id}_{p_name}.docx", slashes replaced
FileName(contract_id, p_name) ==
    Sanitize(contract_id \o <<"_">> \o p_name \o <<".", "d", "o", "c", "x">>)

NoContext ==
    [contract_id |-> <<>>, prefix |-> <<>>, name |-> <<>>, surname |-> <<>>,
     id_card |-> <<>>, address |-> <<>>, sign_name |-> <<>>]

\* the context dict built for table row r with identifier id
RowContext(r, id) ==
    LET p_prefix == PyStr(df.rows[r][cols["prefix"]])
        p_name == PyStr(df.rows[r][cols["name"]])
        p_surname == PyStr(df.rows[r][cols["surname"]])
        p_id == PyStr(df.rows[r][cols["id"]])
        p_address == PyStr(df.rows[r][cols["address"]])
    IN  [contract_id |-> id, prefix |-> p_prefix, name |-> p_name,
         surname |-> p_surname, id_card |-> p_id, address |-> p_address,
         sign_name |-> p_prefix \o <<" ">> \o p_name \o <<" ">> \o p_surname]

NoDoc == [inst |-> 0, from_pos |-> 0, row |-> 0, renders |-> 0]

\* a script run starts with none of the loop's objects
FreshRun ==
    /\ i' = 0
    /\ context' = NoContext
    /\ doc' = NoDoc
    /\ n_inst' = 0
    /\ zip_buffer' = "none"
    /\ zf' = <<>>
    /\ ids' = <<>>
    /\ rows_seen' = <<>>

\* the same, as a state
Idle ==
    /\ i = 0
    /\ context = NoContext
    /\ doc = NoDoc
    /\ n_inst = 0
    /\ zip_buffer = "none"
    /\ zf = <<>>
    /\ ids = <<>>
    /\ rows_seen = <<>>

Init ==
    /\ csv_file \in [lines : Payloads, pos : {0}]
    /\ docx_pos = 0
    /\ df = NoTable
    /\ start_contract_id = DefaultStartId
    /\ cols = DefaultCols(2)
    /\ Select = <<>>
    /\ pc = "read_utf8"
    /\ out = {}
    /\ Idle

----------------------------------------------------------------------------
(* Ingestion, lines 41-48 and 64-91 *)

\* the widgets drawn once a table is there
ShowTable(table) ==
    /\ df' = table
    /\ cols' = DefaultCols(Len(table.columns))
    /\ Select' = [r \in 1..Len(table.rows) |-> FALSE]
    /\ out' = {"files_uploaded"}
    /\ pc' = "ui"

\* except Exception as e: st.error(...) for a failure before any table exists
IngestFails ==
    /\ out' = {"error"}
    /\ pc' = "stopped"
    /\ UNCHANGED <<df, cols, Select>>

\* pd.read_csv(csv_file, encoding='utf-8') returns
ReadCsvUtf8 ==
    /\ pc = "read_utf8"
    /\ Remaining(csv_file) # <<>>
    /\ FirstInvalidUtf8(csv_file) = 0
    /\ csv_file' = [csv_file EXCEPT !.pos = Len(csv_file.lines)]
    /\ ShowTable(ParseTable(Remaining(csv_file), csv_file.pos))
    /\ UNCHANGED <<docx_pos, start_contract_id, i, context, doc, n_inst,
                   zip_buffer, zf, ids, rows_seen>>

\* pd.read_csv(csv_file, encoding='utf-8') on an empty upload: EmptyDataError
ReadCsvUtf8Empty ==
    /\ pc = "read_utf8"
    /\ Remaining(csv_file) = <<>>
    /\ IngestFails
    /\ UNCHANGED <<csv_file, docx_pos, start_contract_id, i, context, doc, n_inst,
                   zip_buffer, zf, ids, rows_seen>>

\* where the failed UTF-8 read leaves the stream: the reader had consumed at
\* least the undecodable line, and how far beyond it depends on its chunking
PositionsAfterDecodeError(f) == FirstInvalidUtf8(f)..Len(f.lines)

\* pd.read_csv(csv_file, encoding='utf-8') raises UnicodeDecodeError, which
\* line 45 catches; nothing rewinds csv_file
ReadCsvUtf8DecodeError ==
    /\ pc = "read_utf8"
    /\ FirstInvalidUtf8(csv_file) > 0
    /\ \E p \in PositionsAfterDecodeError(csv_file) :
          csv_file' = [csv_file EXCEPT !.pos = p]
    /\ pc' = "read_tis620"
    /\ UNCHANGED <<docx_pos, df, start_contract_id, cols, Select, i, context, doc,
                   n_inst, zip_buffer, zf, ids, rows_seen, out>>

\* pd.read_csv(csv_file, encoding='tis-620') returns
ReadCsvTis620 ==
    /\ pc = "read_tis620"
    /\ Remaining(csv_file) # <<>>
    /\ \A k \in 1..Len(Remaining(csv_file)) : ValidTis620(Remaining(csv_file)[k])
    /\ csv_file' = [csv_file EXCEPT !.pos = Len(csv_file.lines)]
    /\ ShowTable(ParseTable(Remaining(csv_file), csv_file.pos))
    /\ UNCHANGED <<docx_pos, start_contract_id, i, context, doc, n_inst,
                   zip_buffer, zf, ids, rows_seen>>

\* pd.read_csv(csv_file, encoding='tis-620') finds nothing left: EmptyDataError
ReadCsvTis620Empty ==
    /\ pc = "read_tis620"
    /\ Remaining(csv_file) = <<>>
    /\ IngestFails
    /\ UNCHANGED <<csv_file, docx_pos, start_contract_id, i, context, doc, n_inst,
                   zip_buffer, zf, ids, rows_seen>>

\* pd.read_csv(csv_file, encoding='tis-620') raises UnicodeDecodeError
ReadCsvTis620DecodeError ==
    /\ pc = "read_tis620"
    /\ \E k \in 1..Len(Remaining(csv_file)) : ~ValidTis620(Remaining(csv_file)[k])
    /\ IngestFails
    /\ UNCHANGED <<csv_file, docx_pos, start_contract_id, i, context, doc, n_inst,
                   zip_buffer, zf, ids, rows_seen>>

----------------------------------------------------------------------------
(* Widget interaction: every change reruns the script without the button.   *)
(* The rerun receives the same upload at position 0 and parses the same     *)
(* table, so df is kept.                                                    *)

\* st.text_input "Enter Starting Contract ID", lines 55-59
EnterStartId(s) ==
    /\ pc = "ui"
    /\ s # start_contract_id
    /\ start_contract_id' = s
    /\ out' = {"files_uploaded"}
    /\ FreshRun
    /\ UNCHANGED <<csv_file, docx_pos, df, cols, Select, pc>>

\* the selectboxes of lines 67-72
ChooseColumns(m) ==
    /\ pc = "ui"
    /\ m # cols
    /\ \A f \in Fields : m[f] <= Len(df.columns)
    /\ cols' = m
    /\ out' = {"files_uploaded"}
    /\ FreshRun
    /\ UNCHANGED <<csv_file, docx_pos, df, start_contract_id, Select, pc>>

\* a click on row r's checkbox in st.data_editor, lines 84-91
ToggleSelect(r) ==
    /\ pc = "ui"
    /\ r \in 1..Len(df.rows)
    /\ Select' = [Select EXCEPT ![r] = ~Select[r]]
    /\ out' = {"files_uploaded"}
    /\ FreshRun
    /\ UNCHANGED <<csv_file, docx_pos, df, start_contract_id, cols, pc>>

----------------------------------------------------------------------------
(* "Generate Selected Contracts", lines 99-159.  The run is sequential: pc   *)
(* walks through the loop body statement by statement, so that a failure    *)
(* can strike between any two of them, and no widget action is enabled      *)
(* until the run is over (pc = "ui").                                       *)

\* the for statement of line 108 after k rows: another row, or out of the loop
LoopHead(k) == IF k < Len(SelectedRows) THEN "prepare" ELSE "finish"

NeverEmpty == FALSE

\* len(selected_rows) == 0
NothingSelected == Len(SelectedRows) = 0

\* the button with nothing selected: st.warning, lines 100-101
ClickGenerateEmpty ==
    /\ pc = "ui"
    /\ NothingSelected
    /\ out' = {"files_uploaded", "warning"}
    /\ FreshRun
    /\ UNCHANGED <<csv_file, docx_pos, df, start_contract_id, cols, Select, pc>>

\* the button with rows selected: lines 103-106 open the archive
ClickGenerate ==
    /\ pc = "ui"
    /\ ~NothingSelected
    /\ i' = 0
    /\ context' = NoContext
    /\ doc' = NoDoc
    /\ n_inst' = 0
    /\ zip_buffer' = "open"
    /\ zf' = <<>>
    /\ ids' = <<>>
    /\ rows_seen' = <<>>
    /\ out' = {"files_uploaded", "progress"}
    /\ pc' = LoopHead(0)
    /\ UNCHANGED <<csv_file, docx_pos, df, start_contract_id, cols, Select>>

\* lines 108-130: next selected row, its identifier and its context
RowPrepare ==
    /\ pc = "prepare"
    /\ LET row == SelectedRows[i + 1]
           current_contract_id == increment_id(start_contract_id, i)
       IN  /\ context' = RowContext(row, current_contract_id)
           /\ ids' = Append(ids, current_contract_id)
           /\ rows_seen' = Append(rows_seen, row)
    /\ pc' = "seek"
    /\ UNCHANGED <<csv_file, docx_pos, df, start_contract_id, cols, Select, i, doc,
                   n_inst, zip_buffer, zf, out>>

TemplateSeekOmitted ==
    /\ pc = "seek"
    /\ pc' = "instantiate"
    /\ UNCHANGED <<csv_file, docx_pos, df, start_contract_id, cols, Select, i,
                   context, doc, n_inst, zip_buffer, zf, ids, rows_seen, out>>

\* line 133: docx_file.seek(0)
TemplateSeek ==
    /\ pc = "seek"
    /\ docx_pos' = 0
    /\ pc' = "instantiate"
    /\ UNCHANGED <<csv_file, df, start_contract_id, cols, Select, i, context, doc,
                   n_inst, zip_buffer, zf, ids, rows_seen, out>>

\* line 134: doc = DocxTemplate(docx_file), which reads the stream to its end
TemplateInstantiate ==
    /\ pc = "instantiate"
    /\ doc' = [inst |-> n_inst + 1, from_pos |-> docx_pos, row |-> i, renders |-> 0]
    /\ n_inst' = n_inst + 1
    /\ docx_pos' = 1
    /\ pc' = "render"
    /\ UNCHANGED <<csv_file, df, start_contract_id, cols, Select, i, context,
                   zip_buffer, zf, ids, rows_seen, out>>

\* line 135: doc.render(context)
Render ==
    /\ pc = "render"
    /\ doc' = [doc EXCEPT !.renders = @ + 1]
    /\ pc' = "write"
    /\ UNCHANGED <<csv_file, docx_pos, df, start_contract_id, cols, Select, i,
                   context, n_inst, zip_buffer, zf, ids, rows_seen, out>>

\* lines 138-149: save, name the entry, zf.writestr, progress; then the loop
\* goes on to the next selected row or leaves the with block
SaveAndWrite ==
    /\ pc = "write"
    /\ zf' = Append(zf, [name |-> FileName(context.contract_id, context.name),
                         inst |-> doc.inst, row |-> rows_seen[Len(rows_seen)]])
    /\ i' = i + 1
    /\ pc' = LoopHead(i + 1)
    /\ UNCHANGED <<csv_file, docx_pos, df, start_contract_id, cols, Select, context,
                   doc, n_inst, zip_buffer, ids, rows_seen, out>>

\* lines 151-159: the archive is closed, st.success and st.download_button
Finish ==
    /\ pc = "finish"
    /\ zip_buffer' = "closed"
    /\ out' = out \cup {"generated", "download"}
    /\ pc' = "ui"
    /\ UNCHANGED <<csv_file, docx_pos, df, start_contract_id, cols, Select, i,
                   context, doc, n_inst, zf, ids, rows_seen>>

SkipFailedRow ==
    /\ out' = out \cup {"error"}
    /\ i' = i + 1
    /\ pc' = LoopHead(i + 1)
    /\ UNCHANGED <<csv_file, df, start_contract_id, cols, Select, context,
                   zip_buffer, zf, ids, rows_seen>>

\* an exception inside the loop: the with block closes the archive, the outer
\* except of lines 161-162 shows the error and the run ends
OuterExcept ==
    /\ zip_buffer' = "closed"
    /\ out' = out \cup {"error"}
    /\ pc' = "ui"
    /\ UNCHANGED <<csv_file, df, start_contract_id, cols, Select, i, context, zf,
                   ids, rows_seen>>

\* line 134 raises (the upload is no readable .docx)
TemplateInstantiateFails ==
    /\ pc = "instantiate"
    /\ docx_pos' = 1
    /\ OuterExcept
    /\ UNCHANGED <<doc, n_inst>>

\* line 135 raises (a template syntax error, an undefined filter)
RenderFails ==
    /\ pc = "render"
    /\ OuterExcept
    /\ UNCHANGED <<docx_pos, doc, n_inst>>

\* lines 139-147 raise (save or writestr fails)
WriteFails ==
    /\ pc = "write"
    /\ OuterExcept
    /\ UNCHANGED <<docx_pos, doc, n_inst>>

Next ==
    \/ ReadCsvUtf8
    \/ ReadCsvUtf8Empty
    \/ ReadCsvUtf8DecodeError
    \/ ReadCsvTis620
    \/ ReadCsvTis620Empty
    \/ ReadCsvTis620DecodeError
    \/ \E s \in StartIdChoices : EnterStartId(s)
    \/ \E m \in MappingChoices : ChooseColumns(m)
    \/ \E r \in 1..(MaxLines - 1) : ToggleSelect(r)
    \/ ClickGenerateEmpty
    \/ ClickGenerate
    \/ RowPrepare
    \/ TemplateSeek
    \/ TemplateInstantiate
    \/ TemplateInstantiateFails
    \/ Render
    \/ RenderFails
    \/ SaveAndWrite
    \/ WriteFails
    \/ Finish

Spec == Init /\ [][Next]_vars

----------------------------------------------------------------------------
(* The sequencer on its own: increment_id(start, 0), increment_id(start, 1), *)
(* ... for start identifiers drawn from SeqStarts.                           *)

SeqAlphabet == {"C", "/", "0", "9", "th1"}

SeqStarts == UNION { [1..n -> SeqAlphabet] : n \in 0..MaxLen }

InitSeq ==
    /\ csv_file = [lines |-> <<>>, pos |-> 0]
    /\ docx_pos = 0
    /\ df = NoTable
    /\ start_contract_id \in SeqStarts
    /\ cols = DefaultCols(2)
    /\ Select = <<>>
    /\ pc = "sequencer"
    /\ out = {}
    /\ Idle

\* one more call, with the next index
SequencerStep ==
    /\ pc = "sequencer"
    /\ Len(ids) <= MaxIndex
    /\ ids' = Append(ids, increment_id(start_contract_id, Len(ids)))
    /\ UNCHANGED <<csv_file, docx_pos, df, start_contract_id, cols, Select, pc, i,
                   context, doc, n_inst, zip_buffer, zf, rows_seen, out>>

NextSeq == SequencerStep

SpecSeq == InitSeq /\ [][NextSeq]_vars

----------------------------------------------------------------------------
(* Vocabulary of the properties *)

\* width of the run of decimal digits that s ends in (0: s ends in no digit)
TrailingDigits(s) ==
    CHOOSE w \in 0..Len(s) :
        /\ \A k \in (Len(s) - w + 1)..Len(s) : IsDigit(s[k])
        /\ w = Len(s) \/ ~IsDigit(s[Len(s) - w])

Pow10 == <<10, 100, 1000, 10000, 100000, 1000000>>

\* decimal digits needed to write x
DigitsNeeded(x) == IF x < 10 THEN 1 ELSE 1 + (CHOOSE d \in 1..5 : Pow10[d] <= x /\ x < Pow10[d + 1])

\* the number a digit string denotes, positionally
NumberValue(ds) ==
    LET part[k \in 0..Len(ds)] ==
            IF k = 0 THEN 0
            ELSE part[k - 1] + DigitValue(ds[k]) * (IF k = Len(ds) THEN 1 ELSE Pow10[Len(ds) - k])
    IN  part[Len(ds)]

OnlyAsciiDigits(ds) == \A k \in 1..Len(ds) : IsAsciiDigit(ds[k])

Larger(a, b) == IF a >= b THEN a ELSE b

\* r is `head`, then x in ASCII decimal zero-padded to at least w digits
PaddedNumberAfter(r, head, x, w) ==
    /\ Len(r) = Len(head) + Larger(w, DigitsNeeded(x))
    /\ SubSeq(r, 1, Len(head)) = head
    /\ OnlyAsciiDigits(SubSeq(r, Len(head) + 1, Len(r)))
    /\ NumberValue(SubSeq(r, Len(head) + 1, Len(r))) = x

RunHead(s) == SubSeq(s, 1, Len(s) - TrailingDigits(s))
RunValue(s) == NumberValue(SubSeq(s, Len(s) - TrailingDigits(s) + 1, Len(s)))

\* the n-th checked row in table order
NthSelected(n) ==
    CHOOSE r \in 1..Len(df.rows) :
        Select[r] /\ Cardinality({ q \in 1..(r - 1) : Select[q] }) = n - 1

\* the text of the input table behind cell (r, c) of df
InputText(r, c) == csv_file.lines[df.skip + 1 + r].cells[c]

AllValidUtf8 == \A k \in 1..Len(csv_file.lines) : ValidUtf8(csv_file.lines[k])
AllValidTis620 == \A k \in 1..Len(csv_file.lines) : ValidTis620(csv_file.lines[k])

----------------------------------------------------------------------------
(* Properties *)

\* C1: for a start identifier ending in a digit run of width w and value v,
\* increment_id(start, n) is the text before the run followed by v+n in
\* decimal, zero-padded to at least w digits, and increment_id(start, 0) is
\* start itself.
C1_DigitRunIncrement ==
    \A n \in 1..Len(ids) :
        TrailingDigits(start_contract_id) > 0 =>
            /\ PaddedNumberAfter(ids[n], RunHead(start_contract_id),
                                 RunValue(start_contract_id) + (n - 1),
                                 TrailingDigits(start_contract_id))
            /\ n = 1 => ids[n] = start_contract_id

\* C1 apart from the identity at n = 0, which a run written in non-ASCII
\* digits does not have.
DigitRunIncrementInAscii ==
    \A n \in 1..Len(ids) :
        TrailingDigits(start_contract_id) > 0 =>
            /\ PaddedNumberAfter(ids[n], RunHead(start_contract_id),
                                 RunValue(start_contract_id) + (n - 1),
                                 TrailingDigits(start_contract_id))
            /\ (n = 1 /\ OnlyAsciiDigits(SubSeq(start_contract_id,
                            Len(RunHead(start_contract_id)) + 1, Len(start_contract_id))))
                  => ids[n] = start_contract_id

\* C2 as stated: for a start identifier that ends in no digit, the identifier
\* at position 0 is start itself and the one at position n > 0 is start, "-"
\* and n+1 in decimal.
C2_FirstIdUnmodified ==
    \A n \in 1..Len(ids) :
        TrailingDigits(start_contract_id) = 0 =>
            IF n = 1 THEN ids[n] = start_contract_id
            ELSE PaddedNumberAfter(ids[n], start_contract_id \o <<"-">>, n, 1)

\* C2 amended: for a start identifier that ends in no digit, the identifier at
\* every position n >= 0 is start, "-" and n+1 in decimal.
C2_SuffixFromOne ==
    \A n \in 1..Len(ids) :
        TrailingDigits(start_contract_id) = 0 =>
            PaddedNumberAfter(ids[n], start_contract_id \o <<"-">>, n, 1)

C2_Witness ==
    /\ pc = "sequencer"
    /\ Len(start_contract_id) > 0
    /\ TrailingDigits(start_contract_id) = 0
    /\ Len(ids) >= 10

\* C10: increment_id(start, n) # increment_id(start, m) for n # m, with or
\* without a trailing digit run.
C10_NoRepeat ==
    \A n, m \in 1..Len(ids) : n # m => ids[n] # ids[m]

C10_Witness ==
    /\ pc = "sequencer"
    /\ TrailingDigits(start_contract_id) = 1
    /\ Len(ids) >= 11
    /\ Len(ids[11]) = Len(start_contract_id) + 1

\* C3: the entry names written to the archive in one batch run are pairwise
\* distinct.
C3_EntryNamesDistinct ==
    \A a, b \in 1..Len(zf) : a # b => zf[a].name # zf[b].name

C3_Witness ==
    /\ Len(zf) >= 2
    /\ TrailingDigits(start_contract_id) = 0
    /\ PyStr(df.rows[zf[1].row][cols["name"]]) = PyStr(df.rows[zf[2].row][cols["name"]])

\* C4: the batch visits the checked rows in table order and gives the row at
\* position n of that order the identifier increment_id(start_id, n), whatever
\* the order of the clicks that checked them.
C4_TableOrder ==
    /\ Len(ids) = Len(rows_seen)
    /\ \A n \in 1..Len(rows_seen) :
          /\ rows_seen[n] = NthSelected(n)
          /\ ids[n] = increment_id(start_contract_id, n - 1)
    /\ \A n \in 1..Len(zf) : zf[n].row = NthSelected(n)
    /\ "generated" \in out => Len(zf) = Cardinality({ r \in 1..Len(df.rows) : Select[r] })

C4_Witness ==
    /\ "generated" \in out
    /\ start_contract_id = DefaultStartId
    /\ Len(zf) = 3
    /\ ids[3] = <<"C", "T", "-", "2", "5", "6", "8", "/", "0", "0", "3">>

\* C5: the button with an empty selection gives the warning and nothing else:
\* no identifier, no template read or render, no archive, no download.
C5_EmptySelection ==
    /\ "warning" \in out =>
          /\ Idle
          /\ pc = "ui"
          /\ out = {"files_uploaded", "warning"}
    /\ (zip_buffer # "none" \/ ids # <<>> \/ n_inst > 0 \/ "download" \in out
            \/ "generated" \in out)
          => \E r \in 1..Len(df.rows) : Select[r]

C5_Witness ==
    /\ "warning" \in out
    /\ Len(df.rows) >= 2

\* C6: a failure while a selected row is processed ends the batch: no later row
\* is processed, the error is shown, and no success message or download is.
C6_AbortOnFailure ==
    ("error" \in out /\ zip_buffer # "none") =>
        /\ pc = "ui"
        /\ zip_buffer = "closed"
        /\ "generated" \notin out
        /\ "download" \notin out
        /\ Len(rows_seen) = i + 1
        /\ Len(zf) = i

C6_Witness ==
    /\ "error" \in out
    /\ Len(zf) >= 1
    /\ Len(zf) + 1 < Cardinality({ r \in 1..Len(df.rows) : Select[r] })

\* C7: every render call acts on an instance made for this row, from the
\* template rewound to its beginning, that was never rendered before.
C7_FreshTemplatePerRender ==
    [][(pc = "render" /\ pc' = "write") =>
          /\ doc.from_pos = 0
          /\ doc.row = i
          /\ doc.renders = 0
          /\ doc.inst = n_inst
          /\ \A a \in 1..Len(zf) : zf[a].inst # doc.inst]_vars

C7_Witness ==
    /\ pc = "write"
    /\ Len(zf) = 2
    /\ doc.renders = 1

\* C8: the id_card of the row context is the text of the mapped column as it
\* stands in the input table.
C8_IdCardIsInputText ==
    (pc \in {"seek", "instantiate", "render", "write"}) =>
        context.id_card = InputText(rows_seen[Len(rows_seen)], cols["id"])

\* C9: UTF-8 first; on failure TIS-620 over the whole payload, so a payload
\* valid as TIS-620 yields the complete table; if neither decodes, an error and
\* no table.
C9_FallbackReadsWholePayload ==
    /\ pc = "read_tis620" => ~AllValidUtf8
    /\ (pc \notin {"read_utf8", "read_tis620", "sequencer"} /\ Len(csv_file.lines) > 0) =>
          /\ AllValidTis620 => df = ParseTable(csv_file.lines, 0)
          /\ ~AllValidTis620 => (~df.loaded /\ pc = "stopped" /\ out = {"error"})

=============================================================================
